---- MODULE Spec2Model ----
(***************************************************************************)
(* Model of the metric-resolution and historical-read pipeline of the      *)
(* atlas metrics SDK: MetricsReader.read and its helpers                   *)
(* (src/atlas/metrics.py), the DeviceMetric model and is_valid_metric      *)
(* (src/atlas/models.py) and the AtlasClient calls they issue              *)
(* (src/atlas/atlas_client.py).                                            *)
(*                                                                         *)
(* One action is one transport invocation together with the code that      *)
(* runs from its return up to the next transport invocation (or up to the  *)
(* return / raise of read).  The platform's answers are chosen with \E.    *)
(* Strings are sequences of one-character strings, so that re.match can    *)
(* be computed.  Floats are counted in tenths (1.5 is 15).                 *)
(*                                                                         *)
(* The answer of a client call (a value, or an exception) stands for the   *)
(* whole HTTP request behind it.  The token fields of the HTTP client      *)
(* (src/atlas/http_client.py) are followed on their own, in SpecToken:     *)
(* http holds _access_token, _expires_at and _user_id, now is the wall     *)
(* clock in seconds.                                                       *)
(***************************************************************************)
EXTENDS Integers, Sequences, FiniteSets, TLC

VARIABLES pc, metrics, facilities, fi, devices, di, alias_filters, aliases,
          point_map, points_response, hvalues, result, calls, error, returned,
          http, now

vars == <<pc, metrics, facilities, fi, devices, di, alias_filters, aliases,
          point_map, points_response, hvalues, result, calls, error, returned,
          http, now>>

\* ------------------------------------------------------------------ bounds
MaxMetrics == 2
MaxFacilities == 2
MaxDevices == 2
MaxAliases == 3
MaxPointMap == 3
MaxHist == 2
MaxReadHist == 1
MaxTokenCalls == 6

\* ------------------------------------------------------------ small helpers
SeqsUpTo(S, n) == UNION {[1..k -> S] : k \in 0..n}

\* sequences without repetition
DistinctSeqsUpTo(S, n) ==
    {s \in SeqsUpTo(S, n) : \A i, j \in 1..Len(s) : i # j => s[i] # s[j]}

Range(s) == {s[i] : i \in 1..Len(s)}

Min(a, b) == IF a < b THEN a ELSE b

\* Python None where a string is expected
None == "None"

\* ------------------------------------------------------- models.py (enums)
DeviceKind == {"compressor", "evaporator", "condenser", "vessel"}

CompressorMetric == {"DischargePressure", "DischargeTemperature",
                     "SuctionPressure", "SuctionTemperature"}

CondenserMetric == {"DischargePressure", "DischargeTemperature"}

EvaporatorMetric == {"SupplyTemperature", "ReturnTemperature"}

VesselMetric == {"SuctionPressure"}

DeviceMetricName ==
    CompressorMetric \cup CondenserMetric \cup EvaporatorMetric \cup VesselMetric

device_metric_mapping ==
    [k \in DeviceKind |->
        CASE k = "compressor" -> CompressorMetric
          [] k = "condenser"  -> CondenserMetric
          [] k = "evaporator" -> EvaporatorMetric
          [] k = "vessel"     -> VesselMetric]

\* A plausible slip: any enumerated metric name is accepted for any kind.
is_valid_metric_any_kind(metric) == metric.name \in DeviceMetricName

is_valid_metric(metric) == metric.name \in device_metric_mapping[metric.device_kind]

\* pydantic validation of DeviceMetric(name=..., device_kind=...): name is a
\* required member of the Union of the four enums (None is not), device_kind
\* a member of DeviceKind.
DeviceMetricValidates(name, device_kind) ==
    name \in DeviceMetricName /\ device_kind \in DeviceKind

\* metric.alias_regex as _get_alias_filters reads it.  The DeviceMetric class
\* of models.py declares no such field; the attribute is modelled as the
\* optional pattern of section 3 of the specification.  <<>> stands for a
\* falsy value (None or the empty string).
NoRegex == <<>>

alias_regex(metric) == metric.alias_regex

DeviceMetric(name, device_kind, regex) ==
    [name |-> name, device_kind |-> device_kind, alias_regex |-> regex]

\* re.compile(p).match(s): the pattern is matched from the start of s and need
\* not reach its end.  Patterns are sequences of literal characters and "."
\* (any character).
re_match(pattern, s) ==
    /\ Len(pattern) <= Len(s)
    /\ \A i \in 1..Len(pattern) : pattern[i] = "." \/ pattern[i] = s[i]

\* ------------------------------------------------------------ errors, dict
\* An exception: its kind, the facility name its message carries (None when
\* it carries none) and, for the points-not-found error, the named aliases.
Exception(kind, context, not_found) ==
    [kind |-> kind, context |-> context, not_found |-> not_found]

NoError == Exception("none", None, {})

\* defaultdict(list): a function whose domain is the set of keys present
EmptyDict == [k \in {} |-> <<>>]

DictAppend(d, k, v) ==
    IF k \in DOMAIN d THEN [d EXCEPT ![k] = Append(@, v)]
    ELSE [x \in DOMAIN d \cup {k} |-> IF x = k THEN <<v>> ELSE d[x]]

\* Number of records held by a result mapping
RECURSIVE DictSize(_)
DictSize(d) ==
    IF DOMAIN d = {} THEN 0
    ELSE LET k == CHOOSE x \in DOMAIN d : TRUE
         IN Len(d[k]) + DictSize([x \in DOMAIN d \ {k} |-> d[x]])

\* ------------------------------------------------- metrics.py: alias matching
\* A plausible slip: the metrics are not restricted to the device's kind.
metrics_filter_all(ms, device) == ms

\* [metric for metric in filter.metrics if metric.device_kind == device.kind]
metrics_filter(ms, device) ==
    SelectSeq(ms, LAMBDA m : m.device_kind = device.kind)

\* MetricsReader._get_alias_filters: the exact-name pass followed by the
\* regex pass; a dict {"alias", "filter"} per match.
AliasFilter(prop) == [alias |-> prop.alias, filter |-> prop.key]

get_alias_filters(device, ms) ==
    LET metric_names == {ms[i].name : i \in 1..Len(ms)}
        metric_regexps == {alias_regex(ms[i]) : i \in {j \in 1..Len(ms) : alias_regex(ms[j]) # NoRegex}}
        filters == SelectSeq(device.properties, LAMBDA prop : prop.key \in metric_names)
        regex_filters == SelectSeq(device.properties,
                                   LAMBDA prop : \E pattern \in metric_regexps : re_match(pattern, prop.alias))
        matched == filters \o regex_filters
    IN [i \in 1..Len(matched) |-> AliasFilter(matched[i])]

\* aliases = [af["alias"] for af in alias_filters]
aliases_of(afs) == [i \in 1..Len(afs) |-> afs[i].alias]

\* ------------------------------------------------ metrics.py: point resolution
\* A point-id answer of the platform: it raised, or it is a dict, kept as the
\* sequence of its items (distinct keys, insertion order).
Keys(pm) == {pm[i].alias : i \in 1..Len(pm)}

Values(pm) == [i \in 1..Len(pm) |-> pm[i].pid]

\* A plausible slip: the missing aliases are computed the wrong way round.
not_found_reversed(als, pm) == Keys(pm) \ Range(als)

not_found_of(als, pm) == Range(als) \ Keys(pm)

size_mismatch(als, pm) == Len(pm) # Len(als)

\* MetricsReader._get_point_ids: the exception it raises for this answer, or
\* NoError when it returns the answer.
get_point_ids_error(facility, als, response) ==
    IF als = <<>> THEN Exception("NoAliases", facility.short_name, {})
    ELSE IF response.raised THEN Exception("ListPointsError", facility.display_name, {})
    ELSE IF size_mismatch(als, response.map)
         THEN Exception("PointsNotFound", facility.short_name, not_found_of(als, response.map))
    ELSE NoError

\* ------------------------------------------------------ metrics.py: assembly
\* datetime.fromtimestamp(ts): epoch seconds to naive local wall-clock time
UtcOffsetSeconds == 3600

fromtimestamp(ts) == [wall |-> ts + UtcOffsetSeconds]

\* pydantic coercion of a discrete (bool) value into MetricValue.value: float
bool_to_float(b) == IF b THEN 10 ELSE 0

MetricValue(ts, val) == [timestamp |-> fromtimestamp(ts), value |-> val]

\* A plausible slip: the values are paired in reverse order.
zip_reversed(timestamps, vals) ==
    LET n == Min(Len(timestamps), Len(vals))
    IN [i \in 1..n |-> MetricValue(timestamps[i], vals[n + 1 - i])]

\* [MetricValue(...) for ts, val in zip(timestamps, vals)]
zip_values(timestamps, vals) ==
    [i \in 1..Min(Len(timestamps), Len(vals)) |-> MetricValue(timestamps[i], vals[i])]

\* next((alias for alias, pid in point_map.items() if pid == point_id), None)
point_alias_of(pm, point_id) ==
    LET hits == {i \in 1..Len(pm) : pm[i].pid = point_id}
    IN IF hits = {} THEN [found |-> FALSE, alias |-> <<>>]
       ELSE [found |-> TRUE, alias |-> pm[CHOOSE i \in hits : \A j \in hits : i <= j].alias]

\* next((af["filter"] for af in alias_filters if af["alias"] == point_alias), None)
point_filter_of(afs, point_alias) ==
    LET hits == {i \in 1..Len(afs) : point_alias.found /\ afs[i].alias = point_alias.alias}
    IN IF hits = {} THEN None
       ELSE afs[CHOOSE i \in hits : \A j \in hits : i <= j].filter

\* the analog / discrete / neither branches
\* A plausible slip: the discrete branch is forgotten.
selected_values_analog_only(point_values) ==
    IF point_values.analog.present
    THEN [timestamps |-> point_values.analog.timestamps,
          vals |-> point_values.analog.values]
    ELSE [timestamps |-> <<>>, vals |-> <<>>]

selected_values(point_values) ==
    IF point_values.analog.present
    THEN [timestamps |-> point_values.analog.timestamps,
          vals |-> point_values.analog.values]
    ELSE IF point_values.discrete.present
    THEN [timestamps |-> point_values.discrete.timestamps,
          vals |-> [i \in 1..Len(point_values.discrete.values) |->
                       bool_to_float(point_values.discrete.values[i])]]
    ELSE [timestamps |-> <<>>, vals |-> <<>>]

\* MetricValues(metric=DeviceMetric(name=point_filter, device_kind=device.kind), ...)
MetricValues(point_filter, device, timestamps, vals) ==
    [metric |-> [name |-> point_filter, device_kind |-> device.kind],
     device_name |-> device.name,
     device_alias |-> device.alias,
     values |-> zip_values(timestamps, vals)]

\* A plausible slip: a record with an empty series is not appended.
process_one_skip_empty(device, afs, pm, agvalues) ==
    LET point_filter == point_filter_of(afs, point_alias_of(pm, agvalues.point_id))
        sel == selected_values(agvalues.avg)
    IN IF ~agvalues.has_avg
       THEN [error |-> Exception("KeyError", None, {}), appended |-> <<>>]
       ELSE IF ~DeviceMetricValidates(point_filter, device.kind)
       THEN [error |-> Exception("ValidationError", None, {}), appended |-> <<>>]
       ELSE [error |-> NoError,
             appended |-> IF sel.vals = <<>> THEN <<>>
                          ELSE <<MetricValues(point_filter, device, sel.timestamps, sel.vals)>>]

\* One turn of the loop of _process_historical_values: the exception it
\* raises, or the MetricValues records it appends (exactly one).
process_one(device, afs, pm, agvalues) ==
    LET point_alias == point_alias_of(pm, agvalues.point_id)
        point_filter == point_filter_of(afs, point_alias)
        sel == selected_values(agvalues.avg)
    IN IF ~agvalues.has_avg
       THEN [error |-> Exception("KeyError", None, {}), appended |-> <<>>]
       ELSE IF ~DeviceMetricValidates(point_filter, device.kind)
       THEN [error |-> Exception("ValidationError", None, {}), appended |-> <<>>]
       ELSE [error |-> NoError,
             appended |-> <<MetricValues(point_filter, device, sel.timestamps, sel.vals)>>]

RECURSIVE DictExtend(_, _, _)
DictExtend(d, k, vs) ==
    IF vs = <<>> THEN d ELSE DictExtend(DictAppend(d, k, Head(vs)), k, Tail(vs))

\* A plausible slip: the facility's list is looked up in the defaultdict before
\* the loop, which creates the key even when nothing is appended.
RECURSIVE process_historical_values_keyed(_, _, _, _, _, _)
process_historical_values_keyed(res, facility, device, afs, pm, hvs) ==
    LET keyed == [x \in DOMAIN res \cup {facility.short_name} |->
                     IF x \in DOMAIN res THEN res[x] ELSE <<>>]
    IN IF hvs = <<>> THEN [error |-> NoError, result |-> keyed]
       ELSE LET one == process_one(device, afs, pm, Head(hvs))
            IN IF one.error # NoError
               THEN [error |-> one.error, result |-> keyed]
               ELSE process_historical_values_keyed(
                        DictExtend(keyed, facility.short_name, one.appended),
                        facility, device, afs, pm, Tail(hvs))

\* MetricsReader._process_historical_values: the records are taken in order;
\* the first one that raises ends the loop with the entries appended so far.
RECURSIVE process_historical_values(_, _, _, _, _, _)
process_historical_values(res, facility, device, afs, pm, hvs) ==
    IF hvs = <<>> THEN [error |-> NoError, result |-> res]
    ELSE LET one == process_one(device, afs, pm, Head(hvs))
         IN IF one.error # NoError
            THEN [error |-> one.error, result |-> res]
            ELSE process_historical_values(
                     DictExtend(res, facility.short_name, one.appended),
                     facility, device, afs, pm, Tail(hvs))

\* ------------------------------------------------------------------ inputs
\* Metric declarations a caller may put in Filter.metrics
MetricInputs ==
    {DeviceMetric("SuctionPressure", "compressor", NoRegex),
     DeviceMetric("SuctionPressure", "vessel", NoRegex),
     DeviceMetric("SupplyTemperature", "compressor", NoRegex),
     DeviceMetric("SuctionPressure", "compressor", <<"a">>)}

\* Facility records (models.Facility) the catalog may hold
Facility(short_name, display_name, organization_id, agents) ==
    [short_name |-> short_name, display_name |-> display_name,
     organization_id |-> organization_id, agents |-> agents]

FacilityInputs ==
    {Facility("f1", "Facility 1", "o1", <<"ag1">>),
     Facility("f2", "Facility 2", "o2", <<"ag2">>),
     Facility("f3", "Facility 3", "o3", <<>>)}

\* Device records (models.Device); a property is its key and its value.alias
Property(key, alias) == [key |-> key, alias |-> alias]

Device(name, alias, kind, properties) ==
    [name |-> name, alias |-> alias, kind |-> kind, properties |-> properties]

DeviceInputs ==
    {Device("Comp 1", "comp1", "compressor",
            <<Property("SuctionPressure", <<"a">>), Property("MotorCurrent", <<"a", "b">>)>>),
     Device("Comp 2", "comp2", "compressor", <<Property("MotorCurrent", <<"c">>)>>),
     Device("Vessel 1", "ves1", "vessel", <<Property("SuctionPressure", <<"c">>)>>)}

\* the devices assembly is followed for: also a compressor exposing a property
\* under a key that is an enumerated name of another kind
AssembleDeviceInputs ==
    DeviceInputs
    \cup {Device("Comp 3", "comp3", "compressor",
                 <<Property("SupplyTemperature", <<"a", "b">>)>>)}

AliasUniverse == {<<"a">>, <<"a", "b">>, <<"c">>}

PointIds == {"p1", "p2"}

\* dicts alias -> point id the platform may answer with
PointMaps ==
    {pm \in SeqsUpTo([alias : AliasUniverse, pid : PointIds], MaxPointMap) :
        \A i, j \in 1..Len(pm) : i # j => pm[i].alias # pm[j].alias}

PointIdResponses(maps) ==
    {[raised |-> TRUE, map |-> <<>>]} \cup {[raised |-> FALSE, map |-> pm] : pm \in maps}

ReadPointMaps == {pm \in PointMaps : \A i \in 1..Len(pm) : pm[i].pid = "p1"}

\* models.PointValues: analog and discrete both default to None
Series(present, timestamps, values) ==
    [present |-> present, timestamps |-> timestamps, values |-> values]

Absent == Series(FALSE, <<>>, <<>>)

PointValues(analog, discrete) == [analog |-> analog, discrete |-> discrete]

PV_analog == PointValues(Series(TRUE, <<0, 60>>, <<15, 25>>), Absent)

PV_discrete == PointValues(Absent, Series(TRUE, <<0>>, <<TRUE>>))

PV_neither == PointValues(Absent, Absent)

PV_both == PointValues(Series(TRUE, <<0>>, <<15>>), Series(TRUE, <<60>>, <<FALSE>>))

PV_uneven == PointValues(Series(TRUE, <<0, 60>>, <<15>>), Absent)

PointValuesInputs == {PV_analog, PV_discrete, PV_neither, PV_both, PV_uneven}

\* models.HistoricalValues; has_avg tells whether values holds the "avg" key
HistoricalValues(point_id, has_avg, avg) ==
    [point_id |-> point_id, has_avg |-> has_avg, avg |-> avg]

HistoricalInputs ==
    {HistoricalValues(p, TRUE, pv) : p \in PointIds, pv \in PointValuesInputs}
    \cup {HistoricalValues("p1", FALSE, PV_neither)}

ReadHistoricalInputs ==
    {HistoricalValues(p, TRUE, PV_analog) : p \in PointIds}

HistoricalResponses(inputs, n) ==
    {[raised |-> TRUE, values |-> <<>>]}
    \cup {[raised |-> FALSE, values |-> hvs] : hvs \in SeqsUpTo(inputs, n)}

\* ------------------------------------------------------------ read: control
NoResult == [has |-> FALSE, value |-> EmptyDict]

\* one transport invocation: the client method, the facility and device it is
\* issued for, the alias list or point-id list it carries, and whether it
\* returned (ok) or raised
Call(op, facility, device, arg, ok) ==
    [op |-> op, facility |-> facility, device |-> device, arg |-> arg, ok |-> ok]

\* agent_id = facility.agents[0], then the call of _get_devices; past the last
\* facility read returns
EnterFacility(facs, f) ==
    IF f > Len(facs) THEN [pc |-> "returned", fi |-> f, di |-> 0, error |-> NoError]
    ELSE IF facs[f].agents = <<>>
    THEN [pc |-> "raised", fi |-> f, di |-> 0, error |-> Exception("IndexError", None, {})]
    ELSE [pc |-> "list_devices", fi |-> f, di |-> 0, error |-> NoError]

\* A plausible slip: the test of the alias filters is left out.
Skipped_kind_only(ms, device) == metrics_filter(ms, device) = <<>>

\* the two `continue` tests of the device loop
Skipped(ms, device) ==
    \/ metrics_filter(ms, device) = <<>>
    \/ get_alias_filters(device, metrics_filter(ms, device)) = <<>>

\* the device loop from position `from`: the first device that is not skipped
\* is taken to point resolution; past the last device the facility loop goes on
AfterDevices(ms, facs, f, devs, from) ==
    LET rest == {j \in from..Len(devs) : ~Skipped(ms, devs[j])}
    IN IF rest # {}
       THEN [pc |-> "get_point_ids", fi |-> f,
             di |-> CHOOSE j \in rest : \A k \in rest : j <= k, error |-> NoError]
       ELSE EnterFacility(facs, f + 1)

NoResponse == [raised |-> FALSE, map |-> <<>>]

\* the variables a control record decides; the locals of the device iteration
\* just left (point_map and the answer it came from) are dead
Goto(c, devs, res) ==
    /\ pc' = c.pc
    /\ point_map' = <<>>
    /\ points_response' = NoResponse
    /\ fi' = c.fi
    /\ di' = c.di
    /\ error' = c.error
    /\ devices' = devs
    /\ alias_filters' = IF c.pc = "get_point_ids"
                        THEN get_alias_filters(devs[c.di], metrics_filter(metrics, devs[c.di]))
                        ELSE <<>>
    /\ aliases' = aliases_of(alias_filters')
    /\ result' = res
    /\ returned' = IF c.pc = "returned" THEN [has |-> TRUE, value |-> res] ELSE NoResult

\* raise: read ends without a return value; the accumulator is dropped
Raise(e) ==
    /\ pc' = "raised"
    /\ error' = e
    /\ returned' = NoResult
    /\ UNCHANGED <<fi, di, devices, alias_filters, aliases, result>>

\* ------------------------------------------------------------ read: actions
\* A plausible slip: the emptiness test is left out.
metrics_missing_unchecked(ms) == FALSE

\* `if not filter.metrics`
metrics_missing(ms) == ms = <<>>

\* entry of read: the two validations, before any call of the client
ReadEntry ==
    /\ pc = "read"
    /\ IF metrics_missing(metrics)
       THEN Raise(Exception("NoMetrics", None, {}))
       ELSE IF \E i \in 1..Len(metrics) : ~is_valid_metric(metrics[i])
       THEN Raise(Exception("InvalidMetric", None, {}))
       ELSE /\ pc' = "filter_facilities"
            /\ UNCHANGED <<fi, di, devices, alias_filters, aliases, result, error, returned>>
    /\ UNCHANGED <<metrics, facilities, point_map, points_response, hvalues, calls, http, now>>

\* AtlasClient.filter_facilities: the facility records selected by the filter,
\* or a transport failure
filter_facilities_responses ==
    {[raised |-> TRUE, facilities |-> <<>>]}
    \cup {[raised |-> FALSE, facilities |-> facs] : facs \in DistinctSeqsUpTo(FacilityInputs, MaxFacilities)}

\* facilities = self.client.filter_facilities(...); result = defaultdict(list);
\* the facility loop is entered
FilterFacilities ==
    /\ pc = "filter_facilities"
    /\ \E r \in filter_facilities_responses :
        /\ calls' = Append(calls, Call("filter_facilities", None, None, <<>>, ~r.raised))
        /\ IF r.raised
           THEN Raise(Exception("TransportError", None, {}))
                /\ UNCHANGED <<facilities, point_map, points_response>>
           ELSE /\ facilities' = r.facilities
                /\ Goto(EnterFacility(r.facilities, 1), <<>>, EmptyDict)
    /\ UNCHANGED <<metrics, hvalues, http, now>>

\* devices the platform may list for an agent
list_devices_responses ==
    {[raised |-> TRUE, devices |-> <<>>]}
    \cup {[raised |-> FALSE, devices |-> devs] : devs \in DistinctSeqsUpTo(DeviceInputs, MaxDevices)}

\* A plausible slip: a failed device listing is skipped and the loop goes on.
list_devices_failed_swallowed(facility) ==
    Goto(EnterFacility(facilities, fi + 1), <<>>, result)

\* MetricsReader._get_devices, except branch
list_devices_failed(facility) ==
    /\ Raise(Exception("ListDevicesError", facility.display_name, {}))
    /\ UNCHANGED <<point_map, points_response>>

\* devices = self._get_devices(facility, agent_id), then the device loop up to
\* the first device that is not skipped
ListDevices ==
    /\ pc = "list_devices"
    /\ \E r \in list_devices_responses :
        /\ calls' = Append(calls, Call("list_devices", facilities[fi].short_name, None,
                                       <<>>, ~r.raised))
        /\ IF r.raised
           THEN list_devices_failed(facilities[fi])
           ELSE Goto(AfterDevices(metrics, facilities, fi, r.devices, 1), r.devices, result)
    /\ hvalues' = <<>>
    /\ UNCHANGED <<metrics, facilities, http, now>>

\* point_map = self._get_point_ids(facility, agent_id, aliases)
GetPointIds(maps) ==
    /\ pc = "get_point_ids"
    /\ \E r \in PointIdResponses(maps) :
          LET e == get_point_ids_error(facilities[fi], aliases, r)
          IN /\ IF aliases = <<>>
                THEN UNCHANGED <<calls, points_response>>
                ELSE /\ calls' = Append(calls, Call("get_point_ids", facilities[fi].short_name,
                                                    devices[di].name, aliases, ~r.raised))
                     /\ points_response' = r
             /\ IF e # NoError
                THEN Raise(e) /\ UNCHANGED point_map
                ELSE /\ point_map' = r.map
                     /\ pc' = "get_historical_values"
                     /\ UNCHANGED <<fi, di, devices, alias_filters, aliases, result, error, returned>>
    /\ hvalues' = <<>>
    /\ UNCHANGED <<metrics, facilities, http, now>>

\* hvalues = self._get_historical_values(...); self._process_historical_values(...);
\* then the device loop goes on
GetHistoricalValues(inputs, n) ==
    /\ pc = "get_historical_values"
    /\ \E r \in HistoricalResponses(inputs, n) :
          /\ calls' = Append(calls, Call("get_historical_values", facilities[fi].short_name,
                                         devices[di].name, Values(point_map), ~r.raised))
          /\ hvalues' = r.values
          /\ IF r.raised
             THEN /\ Raise(Exception("HistoricalValuesError", facilities[fi].display_name, {}))
                  /\ UNCHANGED <<point_map, points_response>>
             ELSE LET out == process_historical_values(result, facilities[fi], devices[di],
                                                       alias_filters, point_map, r.values)
                  IN IF out.error # NoError
                     THEN /\ pc' = "raised"
                          /\ error' = out.error
                          /\ returned' = NoResult
                          /\ result' = out.result
                          /\ UNCHANGED <<fi, di, devices, alias_filters, aliases,
                                         point_map, points_response>>
                     ELSE Goto(AfterDevices(metrics, facilities, fi, devices, di + 1),
                               devices, out.result)
    /\ UNCHANGED <<metrics, facilities, http, now>>

ReadPointIds == GetPointIds(ReadPointMaps)

ResolvePointIds == GetPointIds(PointMaps)

ReadHistoricalValues == GetHistoricalValues(ReadHistoricalInputs, MaxReadHist)

AssembleHistoricalValues == GetHistoricalValues(HistoricalInputs, MaxHist)

\* ------------------------------------------- http_client.py: access token
\* self._expiration_margin = timedelta(minutes=30), in seconds
ExpirationMargin == 1800

\* self._expires_at = datetime.now() - timedelta(days=1), in seconds
InitialExpiryAge == 86400

\* _user_id is assigned by the first refresh only
Unset == "unset"

\* the token fields after AtlasHTTPClient.__init__, constructed at time 0
NewHttp == [access_token |-> None, expires_at |-> 0 - InitialExpiryAge, user_id |-> Unset]

\* A plausible slip: a token with exactly the margin left counts as expiring.
expiring_inclusive(expires_at, t) == expires_at - t <= ExpirationMargin

\* (self._expires_at - datetime.now()) < self._expiration_margin
expiring(expires_at, t) == expires_at - t < ExpirationMargin

\* answers of the login endpoint: an HTTP error, or a JSON body; None is a
\* missing access_token, 0 a missing (or zero) expires_in
ExpiresInInputs == {0, 600, 1800, 3600}

LoginResponses ==
    {[raised |-> TRUE, access_token |-> None, expires_in |-> 0]}
    \cup {[raised |-> FALSE, access_token |-> t, expires_in |-> e] :
              t \in {None, "t1", "t2"}, e \in ExpiresInInputs}

\* answers of the userinfo endpoint
UserinfoResponses == {[raised |-> TRUE, sub |-> None], [raised |-> FALSE, sub |-> "u1"]}

\* AtlasHTTPClient.refresh_access_token called at time t with token fields h:
\* the fields it leaves, the exception it raises (NoError when it returns) and
\* the HTTP exchanges it made
refresh_access_token(h, t, login, userinfo) ==
    IF ~expiring(h.expires_at, t)
    THEN [http |-> h, error |-> NoError, log |-> <<>>]
    ELSE IF login.raised
    THEN [http |-> h, error |-> Exception("HTTPError", None, {}),
          log |-> <<Call("login", None, None, <<>>, FALSE)>>]
    ELSE LET h1 == [h EXCEPT !.access_token = login.access_token]
             h2 == [h1 EXCEPT !.expires_at = t + login.expires_in]
             posted == <<Call("login", None, None, <<>>, TRUE)>>
         IN IF login.access_token = None \/ login.expires_in = 0
            THEN [http |-> h1, error |-> Exception("AuthError", None, {}), log |-> posted]
            ELSE IF userinfo.raised
            THEN [http |-> h2, error |-> Exception("HTTPError", None, {}),
                  log |-> Append(posted, Call("userinfo", None, None, <<>>, FALSE))]
            ELSE [http |-> [h2 EXCEPT !.user_id = userinfo.sub], error |-> NoError,
                  log |-> Append(posted, Call("userinfo", None, None, <<>>, TRUE))]

\* one invocation of refresh_access_token (request makes one before every
\* request); the invocation itself is logged ahead of its exchanges
RefreshAccessToken ==
    /\ pc \in {"refresh_access_token", "refreshed"}
    /\ Len(calls) + 3 <= MaxTokenCalls
    /\ \E login \in LoginResponses, userinfo \in UserinfoResponses :
          LET out == refresh_access_token(http, now, login, userinfo)
          IN /\ http' = out.http
             /\ error' = out.error
             /\ calls' = Append(calls, Call("refresh_access_token", None, None, <<>>,
                                             out.error = NoError))
                         \o out.log
             /\ pc' = IF out.error = NoError THEN "refreshed" ELSE "refresh_access_token"
    /\ UNCHANGED <<metrics, facilities, fi, devices, di, alias_filters, aliases,
                   point_map, points_response, hvalues, result, returned, now>>

\* time passes between a refresh that returned and the next request
Elapse ==
    /\ pc = "refreshed"
    /\ \E d \in {600, 1800} : now' = now + d
    /\ pc' = "refresh_access_token"
    /\ UNCHANGED <<metrics, facilities, fi, devices, di, alias_filters, aliases,
                   point_map, points_response, hvalues, result, calls, error, returned, http>>

\* --------------------------------------------------------- specifications
\* MetricsReader.read called with any Filter.metrics
Init ==
    /\ pc = "read"
    /\ metrics \in DistinctSeqsUpTo(MetricInputs, MaxMetrics)
    /\ facilities = <<>>
    /\ fi = 0
    /\ devices = <<>>
    /\ di = 0
    /\ alias_filters = <<>>
    /\ aliases = <<>>
    /\ point_map = <<>>
    /\ points_response = NoResponse
    /\ hvalues = <<>>
    /\ result = EmptyDict
    /\ calls = <<>>
    /\ error = NoError
    /\ returned = NoResult
    /\ http = NewHttp
    /\ now = 0

Next ==
    \/ ReadEntry
    \/ FilterFacilities
    \/ ListDevices
    \/ ReadPointIds
    \/ ReadHistoricalValues

Spec == Init /\ [][Next]_vars

\* MetricsReader._get_point_ids called with any alias list
InitPointIds ==
    /\ pc = "get_point_ids"
    /\ metrics = <<>>
    /\ facilities \in {<<f>> : f \in FacilityInputs}
    /\ fi = 1
    /\ devices \in {<<d>> : d \in DeviceInputs}
    /\ di = 1
    /\ alias_filters = <<>>
    /\ aliases \in SeqsUpTo(AliasUniverse, MaxAliases)
    /\ point_map = <<>>
    /\ points_response = NoResponse
    /\ hvalues = <<>>
    /\ result = EmptyDict
    /\ calls = <<>>
    /\ error = NoError
    /\ returned = NoResult
    /\ http = NewHttp
    /\ now = 0

NextPointIds == ResolvePointIds

SpecPointIds == InitPointIds /\ [][NextPointIds]_vars

\* read at the historical fetch of a device: any validated metric list, any
\* device it does not skip, any answer that passed point resolution
InitAssemble ==
    /\ pc = "get_historical_values"
    /\ metrics \in {ms \in DistinctSeqsUpTo(MetricInputs, MaxMetrics) :
                      ms # <<>> /\ \A i \in 1..Len(ms) : is_valid_metric(ms[i])}
    /\ facilities \in {<<f>> : f \in {g \in FacilityInputs : g.agents # <<>>}}
    /\ fi = 1
    /\ devices \in {<<d>> : d \in {x \in AssembleDeviceInputs : ~Skipped(metrics, x)}}
    /\ di = 1
    /\ alias_filters = get_alias_filters(devices[1], metrics_filter(metrics, devices[1]))
    /\ aliases = aliases_of(alias_filters)
    /\ point_map \in {pm \in PointMaps : ~size_mismatch(aliases, pm)}
    /\ points_response = [raised |-> FALSE, map |-> point_map]
    /\ hvalues = <<>>
    /\ result = EmptyDict
    /\ calls = <<>>
    /\ error = NoError
    /\ returned = NoResult
    /\ http = NewHttp
    /\ now = 0

NextAssemble == AssembleHistoricalValues

SpecAssemble == InitAssemble /\ [][NextAssemble]_vars

\* A caller's declaration DeviceMetric(name=..., device_kind=..., alias_regex=...)
\* followed by read with that single metric.  The keyword arguments a caller
\* may give: name one of the enumerated names or left out (None), alias_regex
\* a pattern or left out.
DeclarationInputs ==
    {DeviceMetric(n, k, r) : n \in DeviceMetricName \cup {None}, k \in DeviceKind,
                             r \in {NoRegex, <<"a">>, <<".">>}}

\* DeviceMetric(**kwargs): pydantic validates the fields when the object is
\* constructed; a declaration that does not validate raises there.
DeclareMetric ==
    /\ pc = "DeviceMetric"
    /\ IF DeviceMetricValidates(metrics[1].name, metrics[1].device_kind)
       THEN /\ pc' = "read"
            /\ UNCHANGED <<fi, di, devices, alias_filters, aliases, result, error, returned>>
       ELSE Raise(Exception("ValidationError", None, {}))
    /\ UNCHANGED <<metrics, facilities, point_map, points_response, hvalues, calls, http, now>>

InitDeclare ==
    /\ pc = "DeviceMetric"
    /\ metrics \in {<<d>> : d \in DeclarationInputs}
    /\ facilities = <<>>
    /\ fi = 0
    /\ devices = <<>>
    /\ di = 0
    /\ alias_filters = <<>>
    /\ aliases = <<>>
    /\ point_map = <<>>
    /\ points_response = NoResponse
    /\ hvalues = <<>>
    /\ result = EmptyDict
    /\ calls = <<>>
    /\ error = NoError
    /\ returned = NoResult
    /\ http = NewHttp
    /\ now = 0

NextDeclare ==
    \/ DeclareMetric
    \/ ReadEntry

SpecDeclare == InitDeclare /\ [][NextDeclare]_vars

\* a freshly constructed AtlasHTTPClient: refreshes, and time passing in between
InitToken ==
    /\ pc = "refresh_access_token"
    /\ metrics = <<>>
    /\ facilities = <<>>
    /\ fi = 0
    /\ devices = <<>>
    /\ di = 0
    /\ alias_filters = <<>>
    /\ aliases = <<>>
    /\ point_map = <<>>
    /\ points_response = NoResponse
    /\ hvalues = <<>>
    /\ result = EmptyDict
    /\ calls = <<>>
    /\ error = NoError
    /\ returned = NoResult
    /\ http = NewHttp
    /\ now = 0

NextToken ==
    \/ RefreshAccessToken
    \/ Elapse

SpecToken == InitToken /\ [][NextToken]_vars

\* ------------------------------------------------------------------ claims
\* device kinds declared by the metric list of the call
DeclaredKinds == {metrics[i].device_kind : i \in 1..Len(metrics)}

KindOfDevice(name) == (CHOOSE d \in DeviceInputs : d.name = name).kind

\* the records a step added to the list of one facility
Appended(before, after, k) ==
    IF k \in DOMAIN after
    THEN SubSeq(after[k], (IF k \in DOMAIN before THEN Len(before[k]) ELSE 0) + 1, Len(after[k]))
    ELSE <<>>

\* a step of read that ran the assembly of a device to its end
Assembled == pc = "get_historical_values" /\ pc' # "raised"

NewRecords == Appended(result, result', facilities[fi].short_name)

\* C1: read called with an empty metric list fails with the no-metrics error,
\* returns nothing, and no transport invocation has been made.
C1_EmptyMetricsFailBeforeTransport ==
    (metrics = <<>> /\ pc # "read") =>
        /\ pc = "raised"
        /\ error.kind = "NoMetrics"
        /\ calls = <<>>
        /\ ~returned.has

C1_Witness == metrics = <<>> /\ pc = "raised" /\ calls = <<>>

\* C2: a non-empty metric list holding, at any position, a metric whose name is
\* not in the enumerated set of its own device kind makes read fail at entry
\* with no transport invocation made.
C2_InvalidMetricFailsAtEntry ==
    (/\ metrics # <<>>
     /\ \E i \in 1..Len(metrics) :
            metrics[i].name \notin device_metric_mapping[metrics[i].device_kind]
     /\ pc # "read") =>
        /\ pc = "raised"
        /\ error.kind = "InvalidMetric"
        /\ calls = <<>>
        /\ ~returned.has

C2_Witness ==
    /\ pc = "raised"
    /\ Len(metrics) = 2
    /\ metrics[1].name \in device_metric_mapping[metrics[1].device_kind]
    /\ metrics[2].name \notin device_metric_mapping[metrics[2].device_kind]
    /\ error.kind = "InvalidMetric"

\* C3: a failed step ends read: a transport call that raised is the last call
\* made and read has raised; whenever an exception is raised read returns no
\* result mapping (not even entries already assembled); and nothing happens,
\* in particular no transport call, after read has raised.
C3_FailureAbortsRead ==
    [][/\ \A i \in 1..Len(calls') :
              ~calls'[i].ok => (i = Len(calls') /\ pc' = "raised")
       /\ error' # NoError => (pc' = "raised" /\ ~returned'.has)
       /\ pc' = "raised" => (error' # NoError /\ ~returned'.has)
       /\ pc # "raised"]_vars

C3_Witness ==
    /\ pc = "raised"
    /\ error.kind = "ListDevicesError"
    /\ DictSize(result) > 0
    /\ ~returned.has
    /\ fi = 2

\* C4: when the platform returns a mapping whose key set is a proper subset of
\* the requested aliases, _get_point_ids fails with the points-not-found error
\* and the aliases it names are exactly the requested ones minus the returned
\* keys.
C4_MissingAliasesNamed ==
    (/\ pc # "get_point_ids"
     /\ aliases # <<>>
     /\ ~points_response.raised
     /\ Keys(points_response.map) \subseteq Range(aliases)
     /\ Keys(points_response.map) # Range(aliases)) =>
        /\ pc = "raised"
        /\ error.kind = "PointsNotFound"
        /\ error.not_found = Range(aliases) \ Keys(points_response.map)

C4_Witness ==
    /\ pc = "raised"
    /\ aliases = << <<"a">>, <<"a", "b">>, <<"c">> >>
    /\ Keys(points_response.map) = {<<"a">>, <<"a", "b">>}
    /\ error.not_found = {<<"c">>}

\* C5: whenever _get_point_ids returns without error, the key set of the
\* returned mapping equals the set of requested aliases.
C5_ReturnedMappingTotal ==
    pc = "get_historical_values" => Keys(point_map) = Range(aliases)

\* C6: no point-resolution call and no historical-value call is issued for a
\* device whose kind is the kind of no declared metric, and no record of such
\* a device is in the result.
C6_UnmatchedKindSkipped ==
    /\ \A i \in 1..Len(calls) :
           calls[i].op \in {"get_point_ids", "get_historical_values"} =>
               KindOfDevice(calls[i].device) \in DeclaredKinds
    /\ \A k \in DOMAIN result : \A i \in 1..Len(result[k]) :
           result[k][i].metric.device_kind \in DeclaredKinds

\* a device of an undeclared kind was passed over and the next one is at
\* point resolution
C6_Witness ==
    /\ pc = "get_point_ids"
    /\ di = 2
    /\ devices[1].kind \notin DeclaredKinds
    /\ \A i \in 1..Len(calls) : calls[i].device # devices[1].name

C8_PairwiseInOrder ==
    [][Assembled =>
        \A i \in 1..Len(hvalues') :
            LET pv == hvalues'[i].avg
                series == IF pv.analog.present THEN pv.analog ELSE pv.discrete
                entries == NewRecords[i].values
            IN ((pv.analog.present \/ pv.discrete.present)
                /\ Len(series.timestamps) = Len(series.values)) =>
                   /\ Len(entries) = Len(series.timestamps)
                   /\ \A j \in 1..Len(entries) :
                          /\ entries[j].timestamp = [wall |-> series.timestamps[j] + UtcOffsetSeconds]
                          /\ entries[j].value = IF pv.analog.present THEN series.values[j]
                                                ELSE IF series.values[j] THEN 10 ELSE 0]_vars

\* timestamps [0, 60] with values [1.5, 2.5] gave (0, 1.5) then (60, 2.5)
C8_Witness ==
    /\ pc = "returned"
    /\ hvalues = <<HistoricalValues("p1", TRUE, PV_analog)>>
    /\ \E k \in DOMAIN result :
           result[k][1].values = <<[timestamp |-> [wall |-> 0 + UtcOffsetSeconds], value |-> 15],
                                   [timestamp |-> [wall |-> 60 + UtcOffsetSeconds], value |-> 25]>>

\* C9: when the point id of a returned record is no value of the point map, or
\* the alias found for it is in no alias filter, assembly does not fail: it
\* still appends a record for every returned record.
C9_NullLabelTolerated ==
    [][(/\ pc = "get_historical_values"
        /\ hvalues' # <<>>
        /\ \A i \in 1..Len(hvalues') : hvalues'[i].has_avg
        /\ \E i \in 1..Len(hvalues') :
               point_filter_of(alias_filters, point_alias_of(point_map, hvalues'[i].point_id)) = None)
       => (pc' # "raised" /\ Len(NewRecords) = Len(hvalues'))]_vars

\* C10: a record with neither variant populated is assembled without error
\* into a record with an empty values sequence; with exactly one variant
\* populated the values are those of that variant.  No record whose label
\* resolves makes assembly raise, whatever variants it carries.
C10_VariantSelection ==
    [][/\ (/\ pc = "get_historical_values"
           /\ error'.kind # "HistoricalValuesError"
           /\ \A i \in 1..Len(hvalues') :
                  /\ hvalues'[i].has_avg
                  /\ point_filter_of(alias_filters,
                                     point_alias_of(point_map, hvalues'[i].point_id)) \in DeviceMetricName)
          => pc' # "raised"
       /\ Assembled =>
            \A i \in 1..Len(hvalues') :
                LET pv == hvalues'[i].avg
                    entries == NewRecords[i].values
                IN /\ (~pv.analog.present /\ ~pv.discrete.present) => entries = <<>>
                   /\ (pv.analog.present /\ ~pv.discrete.present) =>
                          /\ Len(entries) = Min(Len(pv.analog.timestamps), Len(pv.analog.values))
                          /\ \A j \in 1..Len(entries) : entries[j].value = pv.analog.values[j]
                   /\ (~pv.analog.present /\ pv.discrete.present) =>
                          /\ Len(entries) = Min(Len(pv.discrete.timestamps), Len(pv.discrete.values))
                          /\ \A j \in 1..Len(entries) :
                                 entries[j].value = IF pv.discrete.values[j] THEN 10 ELSE 0]_vars

C10_Witness ==
    /\ pc = "returned"
    /\ hvalues = <<HistoricalValues("p1", TRUE, PV_neither), HistoricalValues("p1", TRUE, PV_discrete)>>
    /\ \E k \in DOMAIN result :
           /\ Len(result[k]) = 2
           /\ result[k][1].values = <<>>
           /\ result[k][2].values = <<[timestamp |-> [wall |-> UtcOffsetSeconds], value |-> 10]>>

\* C11: every key of a mapping returned by read is the short name of a facility
\* of the call for which a historical answer was assembled, and maps to a
\* non-empty list; a facility for which no record was assembled (no matching
\* device, or empty historical answers only) is not a key.
C11_KeysHaveRecords ==
    returned.has =>
        /\ \A k \in DOMAIN returned.value :
               /\ returned.value[k] # <<>>
               /\ \E f \in 1..Len(facilities) : facilities[f].short_name = k
               /\ \E i \in 1..Len(calls) :
                      /\ calls[i].op = "get_historical_values"
                      /\ calls[i].facility = k
                      /\ calls[i].ok
        /\ \A f \in 1..Len(facilities) :
               (\A i \in 1..Len(calls) :
                    ~(calls[i].op = "get_historical_values" /\ calls[i].facility = facilities[f].short_name))
               => facilities[f].short_name \notin DOMAIN returned.value

\* the first facility has a record; the second one had a device at the
\* historical fetch, which answered with no record, and is not a key
C11_Witness ==
    /\ returned.has
    /\ Len(facilities) = 2
    /\ DOMAIN returned.value = {facilities[1].short_name}
    /\ calls[Len(calls)].op = "get_historical_values"
    /\ calls[Len(calls)].facility = facilities[2].short_name
    /\ hvalues = <<>>

\* C12: every failure raised while read processes a facility reaches the
\* caller as an error whose context names that facility's display name.
C12_FailuresCarryDisplayName ==
    (pc = "raised" /\ fi \in 1..Len(facilities)) =>
        /\ error # NoError
        /\ error.context = facilities[fi].display_name

\* C13: a metric declared with a device kind and an alias_regex but no name is
\* accepted: its declaration and the entry validation of read raise nothing.
C13_RegexOnlyMetricAccepted ==
    (/\ pc # "DeviceMetric"
     /\ Len(metrics) = 1
     /\ metrics[1].name = None
     /\ alias_regex(metrics[1]) # NoRegex) =>
        /\ pc # "raised"
        /\ error = NoError

\* a step that is an invocation of refresh_access_token right after one that
\* returned, with no time elapsed in between
RefreshedAgain == pc = "refreshed" /\ now' = now

\* the invocation made no exchange and left the token fields as they were
NothingExchanged ==
    /\ calls' = Append(calls, Call("refresh_access_token", None, None, <<>>, TRUE))
    /\ http' = http

\* C14 (as stated): refresh_access_token invoked again right after a refresh
\* that returned, with no time elapsed, makes no token exchange and leaves access
\* token, expiry time and user id unchanged, whatever expires_in was.
C14_RefreshIdempotent ==
    [][RefreshedAgain => NothingExchanged]_vars

\* C14 (amended): the second invocation makes no exchange and changes nothing
\* when the token has at least the expiration margin (1800 s) left, that is
\* when expires_in was at least 1800; with less left it posts to the login
\* endpoint again.
C14_RefreshIdempotentBeyondMargin ==
    [][RefreshedAgain =>
          IF http.expires_at - now >= ExpirationMargin
          THEN NothingExchanged
          ELSE /\ Len(calls') > Len(calls) + 1
               /\ calls'[Len(calls) + 2].op = "login"]_vars

\* a refresh that obtained a token with exactly 1800 s left, then a second
\* invocation at the same instant that made no exchange
C14_Witness ==
    /\ pc = "refreshed"
    /\ now = 0
    /\ Len(calls) = 4
    /\ calls[1].op = "refresh_access_token"
    /\ calls[2].op = "login"
    /\ calls[3].op = "userinfo"
    /\ calls[4].op = "refresh_access_token"
    /\ http = [access_token |-> "t1", expires_at |-> ExpirationMargin, user_id |-> "u1"]

\* a list without repetition
IsDistinct(s) == \A i, j \in 1..Len(s) : i # j => s[i] # s[j]

\* C15: the alias list of every point-resolution call read issues holds each
\* alias at most once.
C15_AliasesDistinct ==
    \A i \in 1..Len(calls) : calls[i].op = "get_point_ids" => IsDistinct(calls[i].arg)

\* C16: for every mapping that passed point resolution, the point-id list the
\* historical fetch is called with, list(point_map.values()), holds each point
\* id at most once.  Stated for the resolutions that answered exactly the
\* distinct aliases requested, where nothing else has gone wrong.
C16_PointIdsDistinct ==
    (/\ pc = "get_historical_values"
     /\ IsDistinct(aliases)
     /\ Keys(point_map) = Range(aliases)) =>
        IsDistinct(Values(point_map))

\* C17: every MetricValues record of a mapping returned by read carries a
\* metric whose name is in the enumerated set of its own device kind.
C17_RecordNamesOfOwnKind ==
    returned.has =>
        \A k \in DOMAIN returned.value : \A i \in 1..Len(returned.value[k]) :
            returned.value[k][i].metric.name
                \in device_metric_mapping[returned.value[k][i].metric.device_kind]

\* the device record a call names
DeviceNamed(name) == CHOOSE d \in DeviceInputs : d.name = name

\* a device of a declared kind none of whose properties matches a rule
Unmatched(device) ==
    /\ device.kind \in DeclaredKinds
    /\ get_alias_filters(device, metrics_filter(metrics, device)) = <<>>

\* C18: a device whose kind has a declared metric but none of whose properties
\* matches is passed over: no point-resolution or historical-value call is
\* issued for it, the device at point resolution or at the historical fetch is
\* never such a device, and read never raises the empty-alias-list error nor
\* calls point resolution with an empty alias list.
C18_UnmatchedDeviceSkipped ==
    /\ \A i \in 1..Len(calls) :
           calls[i].op \in {"get_point_ids", "get_historical_values"} =>
               /\ ~Unmatched(DeviceNamed(calls[i].device))
               /\ calls[i].op = "get_point_ids" => calls[i].arg # <<>>
    /\ pc \in {"get_point_ids", "get_historical_values"} =>
           (~Unmatched(devices[di]) /\ aliases # <<>>)
    /\ error.kind # "NoAliases"

\* the first device of the list was unmatched and passed over without a call,
\* and the second one is at point resolution
C18_Witness ==
    /\ pc = "get_point_ids"
    /\ di = 2
    /\ Unmatched(devices[1])
    /\ calls[Len(calls)].op = "list_devices"
    /\ error = NoError

\* C19: within read the points-not-found error names at least one alias, and
\* it is not raised for a device all of whose requested aliases are keys of
\* the mapping the platform returned.  Stated for alias lists without
\* repetition.
C19_NotFoundNeverEmpty ==
    (pc = "raised" /\ error.kind = "PointsNotFound" /\ IsDistinct(aliases)) =>
        /\ error.not_found # {}
        /\ ~(Range(aliases) \subseteq Keys(points_response.map))

====
